---- MODULE Spec2Model ----
(* A model of the z80 package of toyz80: the register file, the          *)
(* instruction dispatcher Step, Reset, the disassembler and the tracer,  *)
(* over a bus whose                                                      *)
(* memory and IO spaces are sparse maps (an address that was never set   *)
(* reads as 0x00).                                                       *)
EXTENDS Integers, Sequences, FiniteSets, TLC

VARIABLES z, bus, last, prev, dis, text, rst, tr, steps

vars == <<z, bus, last, prev, dis, text, rst, tr, steps>>

(* ---------------------------------------------------------------------- *)
(* Bounds of the model.                                                   *)
(* ---------------------------------------------------------------------- *)
\* Step calls made in one behaviour.
MaxSteps == 2

(* ---------------------------------------------------------------------- *)
(* Fixed-width arithmetic (Go's uint16 and byte).                          *)
(* ---------------------------------------------------------------------- *)
Word == 256 * 256
ByteMod == 2 * 128

Add16(a, b) == (a + b) % Word
Sub16(a, b) == (a - b + Word) % Word
Add8(a, b) == (a + b) % ByteMod
Sub8(a, b) == (a - b + ByteMod) % ByteMod

RECURSIVE And(_, _)
And(a, b) == IF a = 0 \/ b = 0 THEN 0
             ELSE (a % 2) * (b % 2) + 2 * And(a \div 2, b \div 2)

RECURSIVE Or(_, _)
Or(a, b) == IF a = 0 THEN b
            ELSE IF b = 0 THEN a
            ELSE (IF a % 2 = 1 \/ b % 2 = 1 THEN 1 ELSE 0)
                 + 2 * Or(a \div 2, b \div 2)

\* Go's a &^ b
AndNot(a, b) == a - And(a, b)
\* Go's ^a on a uint16
Not16(a) == (Word - 1) - a
\* uint16 << 8 and uint16 >> 8
Shl8(a) == (a * 256) % Word
Shr8(a) == a \div 256
\* byte(x) of a uint16
ToByte(a) == a % ByteMod
\* uint16(int8(b)): sign extension of a byte to 16 bits
SignExt(b) == IF b >= 128 THEN b + (Word - 256) ELSE b

(* ---------------------------------------------------------------------- *)
(* Flag bits of the low byte of AF.                                        *)
(* ---------------------------------------------------------------------- *)
carry == 1
addsub == 2
parity == 4
unused == 8
halfCarry == 16
unused2 == 32
zero == 64
sign == 128

ModeZ80 == 0
Mode8080 == 1

(* ---------------------------------------------------------------------- *)
(* Errors.  The two package-level sentinels, nil, and the error made by   *)
(* fmt.Errorf in Step's default branch (a fresh value that is neither      *)
(* sentinel; its text holds the opcode and the address).                   *)
(* ---------------------------------------------------------------------- *)
HexDigits == <<"0", "1", "2", "3", "4", "5", "6", "7",
               "8", "9", "a", "b", "c", "d", "e", "f">>
Hex2(n) == HexDigits[((n \div 16) % 16) + 1] \o HexDigits[(n % 16) + 1]
Hex4(n) == Hex2((n \div 256) % 256) \o Hex2(n % 256)

nil == [id |-> "nil", text |-> ""]
ErrHalt == [id |-> "ErrHalt", text |-> "halt"]
ErrInvalidInstruction ==
    [id |-> "ErrInvalidInstruction", text |-> "invalid instruction"]
Errorf(opc, pc) ==
    [id |-> "fmt.Errorf",
     text |-> "invalid instruction: 0x" \o Hex2(opc) \o " @ 0x" \o Hex4(pc)]

(* ---------------------------------------------------------------------- *)
(* The bus: a 16-bit memory space and an 8-bit IO space.                   *)
(* ---------------------------------------------------------------------- *)
Read(b, a) == IF a \in DOMAIN b.mem THEN b.mem[a] ELSE 0

Store(f, a, v) ==
    IF v = 0 THEN [x \in (DOMAIN f) \ {a} |-> f[x]]
    ELSE [x \in (DOMAIN f) \cup {a} |-> IF x = a THEN v ELSE f[x]]

Write(b, a, v) == [b EXCEPT !.mem = Store(b.mem, a, v)]

IORead(b, p) == IF p \in DOMAIN b.io THEN b.io[p] ELSE 0

IOWrite(b, p, v) == [b EXCEPT !.io = Store(b.io, p, v)]


(* ---------------------------------------------------------------------- *)
(* Opcode metadata: the base page and the three prefix pages.  An entry    *)
(* holds the mnemonic per dialect (index mode+1), the operand kinds, the   *)
(* register names per dialect, the byte length and the nominal cycle       *)
(* count.  A byte without an entry has the zero-valued descriptor.         *)
(* ---------------------------------------------------------------------- *)
noOpcode ==
    [mnemonic |-> <<>>, dst |-> "none", dstR |-> <<>>, src |-> "none",
     srcR |-> <<>>, noBytes |-> 0, noCycles |-> 0, multiByte |-> FALSE]

Op(mn, d, dR, s, sR, nb, nc) ==
    [mnemonic |-> mn, dst |-> d, dstR |-> dR, src |-> s, srcR |-> sR,
     noBytes |-> nb, noCycles |-> nc, multiByte |-> FALSE]

prefixOpcode == [noOpcode EXCEPT !.multiByte = TRUE]

\* The 8-bit operand selected by three opcode bits: b c d e h l (hl) a.
R8Name == <<"b", "c", "d", "e", "h", "l", "hl", "a">>
R8Name8080 == <<"b", "c", "d", "e", "h", "l", "m", "a">>
R8Kind(i) == IF i = 6 THEN "registerIndirect" ELSE "register"
R8(i) == <<R8Name[i + 1], R8Name8080[i + 1]>>

opcodes ==
    [b \in 0..255 |->
       CASE b = \H00 -> Op(<<"nop", "nop">>, "none", <<>>, "none", <<>>, 1, 4)
         [] b = \H01 -> Op(<<"ld", "lxi">>, "register", <<"bc", "b">>, "immediateExtended", <<>>, 3, 10)
         [] b = \H02 -> Op(<<"ld", "stax">>, "registerIndirect", <<"bc", "b">>, "register", <<"a", "a">>, 1, 7)
         [] b = \H03 -> Op(<<"inc", "inx">>, "register", <<"bc", "b">>, "none", <<>>, 1, 6)
         [] b = \H04 -> Op(<<"inc", "inr">>, "register", <<"b", "b">>, "none", <<>>, 1, 4)
         [] b = \H06 -> Op(<<"ld", "mvi">>, "register", <<"b", "b">>, "immediate", <<>>, 2, 7)
         [] b = \H0a -> Op(<<"ld", "ldax">>, "register", <<"a", "a">>, "registerIndirect", <<"bc", "b">>, 1, 7)
         [] b = \H0b -> Op(<<"dec", "dcx">>, "register", <<"bc", "b">>, "none", <<>>, 1, 6)
         [] b = \H0e -> Op(<<"ld", "mvi">>, "register", <<"c", "c">>, "immediate", <<>>, 2, 7)
         [] b = \H11 -> Op(<<"ld", "lxi">>, "register", <<"de", "d">>, "immediateExtended", <<>>, 3, 10)
         [] b = \H12 -> Op(<<"ld", "stax">>, "registerIndirect", <<"de", "d">>, "register", <<"a", "a">>, 1, 7)
         [] b = \H13 -> Op(<<"inc", "inx">>, "register", <<"de", "d">>, "none", <<>>, 1, 6)
         [] b = \H16 -> Op(<<"ld", "mvi">>, "register", <<"d", "d">>, "immediate", <<>>, 2, 7)
         [] b = \H18 -> Op(<<"jr", "jr">>, "displacement", <<>>, "none", <<>>, 2, 12)
         [] b = \H1a -> Op(<<"ld", "ldax">>, "register", <<"a", "a">>, "registerIndirect", <<"de", "d">>, 1, 7)
         [] b = \H1b -> Op(<<"dec", "dcx">>, "register", <<"de", "d">>, "none", <<>>, 1, 6)
         [] b = \H1e -> Op(<<"ld", "mvi">>, "register", <<"e", "e">>, "immediate", <<>>, 2, 7)
         [] b = \H21 -> Op(<<"ld", "lxi">>, "register", <<"hl", "h">>, "immediateExtended", <<>>, 3, 10)
         [] b = \H23 -> Op(<<"inc", "inx">>, "register", <<"hl", "h">>, "none", <<>>, 1, 6)
         [] b = \H26 -> Op(<<"ld", "mvi">>, "register", <<"h", "h">>, "immediate", <<>>, 2, 7)
         [] b = \H28 -> Op(<<"jr", "jr">>, "condition", <<"z", "z">>, "displacement", <<>>, 2, 12)
         [] b = \H2b -> Op(<<"dec", "dcx">>, "register", <<"hl", "h">>, "none", <<>>, 1, 6)
         [] b = \H2e -> Op(<<"ld", "mvi">>, "register", <<"l", "l">>, "immediate", <<>>, 2, 7)
         [] b = \H2f -> Op(<<"cpl", "cma">>, "none", <<>>, "none", <<>>, 1, 4)
         [] b = \H31 -> Op(<<"ld", "lxi">>, "register", <<"sp", "sp">>, "immediateExtended", <<>>, 3, 10)
         [] b = \H32 -> Op(<<"ld", "sta">>, "extended", <<>>, "register", <<"a", "a">>, 3, 13)
         [] b = \H33 -> Op(<<"inc", "inx">>, "register", <<"sp", "sp">>, "none", <<>>, 1, 6)
         [] b = \H36 -> Op(<<"ld", "mvi">>, "registerIndirect", <<"hl", "m">>, "immediate", <<>>, 2, 10)
         [] b = \H37 -> Op(<<"scf", "stc">>, "none", <<>>, "none", <<>>, 1, 4)
         [] b = \H3a -> Op(<<"ld", "lda">>, "register", <<"a", "a">>, "extended", <<>>, 3, 13)
         [] b = \H3b -> Op(<<"dec", "dcx">>, "register", <<"sp", "sp">>, "none", <<>>, 1, 6)
         [] b = \H3c -> Op(<<"inc", "inr">>, "register", <<"a", "a">>, "none", <<>>, 1, 4)
         [] b = \H3e -> Op(<<"ld", "mvi">>, "register", <<"a", "a">>, "immediate", <<>>, 2, 7)
         [] b = \H3f -> Op(<<"ccf", "cmc">>, "none", <<>>, "none", <<>>, 1, 4)
         [] b = \H76 -> Op(<<"halt", "hlt">>, "none", <<>>, "none", <<>>, 1, 4)
         [] b \in \H40..\H7f /\ b # \H76 ->
              Op(<<"ld", "mov">>,
                 R8Kind((b \div 8) % 8), R8((b \div 8) % 8),
                 R8Kind(b % 8), R8(b % 8),
                 1, IF (b \div 8) % 8 = 6 \/ b % 8 = 6 THEN 7 ELSE 4)
         [] b = \Ha7 -> Op(<<"and", "ana">>, "register", <<"a", "a">>, "none", <<>>, 1, 4)
         [] b = \Hbf -> Op(<<"cp", "cmp">>, "register", <<"a", "a">>, "none", <<>>, 1, 4)
         [] b = \Hc1 -> Op(<<"pop", "pop">>, "register", <<"bc", "b">>, "none", <<>>, 1, 10)
         [] b = \Hc2 -> Op(<<"jp", "jnz">>, "condition", <<"nz", "nz">>, "immediateExtended", <<>>, 3, 10)
         [] b = \Hc3 -> Op(<<"jp", "jmp">>, "immediateExtended", <<>>, "none", <<>>, 3, 10)
         [] b = \Hc5 -> Op(<<"push", "push">>, "register", <<"bc", "b">>, "none", <<>>, 1, 11)
         [] b = \Hc8 -> Op(<<"ret", "rz">>, "condition", <<"z", "z">>, "none", <<>>, 1, 5)
         [] b = \Hc9 -> Op(<<"ret", "ret">>, "none", <<>>, "none", <<>>, 1, 10)
         [] b = \Hca -> Op(<<"jp", "jz">>, "condition", <<"z", "z">>, "immediateExtended", <<>>, 3, 10)
         [] b = \Hcd -> Op(<<"call", "call">>, "immediateExtended", <<>>, "none", <<>>, 3, 17)
         [] b = \Hd1 -> Op(<<"pop", "pop">>, "register", <<"de", "d">>, "none", <<>>, 1, 10)
         [] b = \Hd2 -> Op(<<"jp", "jnc">>, "condition", <<"nc", "nc">>, "immediateExtended", <<>>, 3, 10)
         [] b = \Hd3 -> Op(<<"out", "out">>, "indirect", <<>>, "register", <<"a", "a">>, 2, 11)
         [] b = \Hd5 -> Op(<<"push", "push">>, "register", <<"de", "d">>, "none", <<>>, 1, 11)
         [] b = \Hda -> Op(<<"jp", "jc">>, "condition", <<"c", "c">>, "immediateExtended", <<>>, 3, 10)
         [] b = \Hdb -> Op(<<"in", "in">>, "register", <<"a", "a">>, "indirect", <<>>, 2, 11)
         [] b = \He1 -> Op(<<"pop", "pop">>, "register", <<"hl", "h">>, "none", <<>>, 1, 10)
         [] b = \He2 -> Op(<<"jp", "jpo">>, "condition", <<"po", "po">>, "immediateExtended", <<>>, 3, 10)
         [] b = \He5 -> Op(<<"push", "push">>, "register", <<"hl", "h">>, "none", <<>>, 1, 11)
         [] b = \He6 -> Op(<<"and", "ani">>, "immediate", <<>>, "none", <<>>, 2, 7)
         [] b = \He9 -> Op(<<"jp", "pchl">>, "registerIndirect", <<"hl", "m">>, "none", <<>>, 1, 4)
         [] b = \Hea -> Op(<<"jp", "jpe">>, "condition", <<"pe", "pe">>, "immediateExtended", <<>>, 3, 10)
         [] b = \Heb -> Op(<<"ex", "xchg">>, "register", <<"de", "d">>, "register", <<"hl", "h">>, 1, 4)
         [] b = \Hf1 -> Op(<<"pop", "pop">>, "register", <<"af", "psw">>, "none", <<>>, 1, 10)
         [] b = \Hf2 -> Op(<<"jp", "jp">>, "condition", <<"p", "p">>, "immediateExtended", <<>>, 3, 10)
         [] b = \Hf5 -> Op(<<"push", "push">>, "register", <<"af", "psw">>, "none", <<>>, 1, 11)
         [] b = \Hfa -> Op(<<"jp", "jm">>, "condition", <<"m", "m">>, "immediateExtended", <<>>, 3, 10)
         [] b \in {\Hdd, \Hed, \Hfd} -> prefixOpcode
         [] OTHER -> noOpcode]

\* One index-register page: inc, dec, pop and push of the index register r.
indexPage(r) ==
    [b \in 0..255 |->
       CASE b = \H23 -> Op(<<"inc", "inc">>, "register", <<r, r>>, "none", <<>>, 2, 10)
         [] b = \H2b -> Op(<<"dec", "dec">>, "register", <<r, r>>, "none", <<>>, 2, 10)
         [] b = \He1 -> Op(<<"pop", "pop">>, "register", <<r, r>>, "none", <<>>, 2, 14)
         [] b = \He5 -> Op(<<"push", "push">>, "register", <<r, r>>, "none", <<>>, 2, 15)
         [] OTHER -> noOpcode]

opcodesDD == indexPage("ix")

opcodesFD == indexPage("iy")

opcodesED ==
    [b \in 0..255 |->
       CASE b = \H44 -> Op(<<"neg", "neg">>, "none", <<>>, "none", <<>>, 2, 8)
         [] OTHER -> noOpcode]

(* ---------------------------------------------------------------------- *)
(* Flag helpers.  zz is the register file: a record with the fields of    *)
(* the z80 struct.                                                         *)
(* ---------------------------------------------------------------------- *)
\* z.af |= f
setFlag(zz, f) == [zz EXCEPT !.af = Or(@, f)]
\* z.af &^= f
clearFlag(zz, f) == [zz EXCEPT !.af = AndNot(@, f)]

evalZ(zz, src) ==
    IF src = \H00 THEN setFlag(zz, zero) ELSE clearFlag(zz, zero)

evalS(zz, src) ==
    IF And(src, \H80) = \H80 THEN setFlag(zz, sign) ELSE clearFlag(zz, sign)

evalH(zz, src, increment) ==
    LET h == And(And(src, \H0f) + And(increment, \H0f), \H10)
    IN  IF h # 0 THEN setFlag(zz, halfCarry) ELSE clearFlag(zz, halfCarry)

genericPostInstruction_oneByte(zz, o) ==
    [zz EXCEPT !.totalCycles = @ + o.noCycles,
               !.pc = Add16(@, 1)]

genericPostInstruction(zz, o) ==
    [zz EXCEPT !.totalCycles = @ + o.noCycles,
               !.pc = Add16(@, o.noBytes)]

\* inc8L(&z.r): adds 1 to the low byte of register r and sets the flags.
\* The flags are set on the register file after the store, so that r = "af"
\* (p pointing at z.af) behaves as the aliased pointer does.
inc8L(zz, r) ==
    LET oldB == ToByte(And(zz[r], \H00ff))
        newB == Add8(oldB, 1)
        z1 == [zz EXCEPT ![r] = Or(newB, And(zz[r], \Hff00))]
        z2 == evalS(z1, newB)
        z3 == evalZ(z2, newB)
        z4 == IF oldB = \H7f THEN setFlag(z3, parity) ELSE clearFlag(z3, parity)
        z5 == evalH(z4, oldB, 1)
    IN  clearFlag(z5, addsub)

inc8H_overflowAt80(zz, r) ==
    LET oldB == ToByte(Shr8(zz[r]))
        newB == Add8(oldB, 1)
        z1 == [zz EXCEPT ![r] = Or(Shl8(newB), And(zz[r], \H00ff))]
        z2 == evalS(z1, newB)
        z3 == evalZ(z2, newB)
        z4 == IF oldB = \H80 THEN setFlag(z3, parity) ELSE clearFlag(z3, parity)
        z5 == evalH(z4, oldB, 1)
    IN  clearFlag(z5, addsub)

\* inc8H(&z.r): adds 1 to the high byte of register r and sets the flags.
inc8H(zz, r) ==
    LET oldB == ToByte(Shr8(zz[r]))
        newB == Add8(oldB, 1)
        z1 == [zz EXCEPT ![r] = Or(Shl8(newB), And(zz[r], \H00ff))]
        z2 == evalS(z1, newB)
        z3 == evalZ(z2, newB)
        z4 == IF oldB = \H7f THEN setFlag(z3, parity) ELSE clearFlag(z3, parity)
        z5 == evalH(z4, oldB, 1)
    IN  clearFlag(z5, addsub)

(* ---------------------------------------------------------------------- *)
(* Pieces of Step that several opcodes share word for word.                *)
(* ---------------------------------------------------------------------- *)
imm16_bigEndian(zz, b) ==
    Or(Read(b, Add16(zz.pc, 2)), Shl8(Read(b, Add16(zz.pc, 1))))

\* uint16(z.bus.Read(z.pc+1)) | uint16(z.bus.Read(z.pc+2))<<8
imm16(zz, b) ==
    Or(Read(b, Add16(zz.pc, 1)), Shl8(Read(b, Add16(zz.pc, 2))))

\* z.pc + 2 + uint16(int8(z.bus.Read(z.pc+1)))
relTarget_unsigned(zz, b) ==
    \* a displacement added without sign extension
    Add16(Add16(zz.pc, 2), Read(b, Add16(zz.pc, 1)))

relTarget(zz, b) ==
    Add16(Add16(zz.pc, 2), SignExt(Read(b, Add16(zz.pc, 1))))

pop_sameAddress(zz, b, r) ==
    LET z1 == [zz EXCEPT ![r] = Or(Read(b, zz.sp), And(zz[r], \Hff00))]
        z2 == [z1 EXCEPT !.sp = Add16(@, 1)]
        z3 == [z2 EXCEPT ![r] = Or(Shl8(Read(b, z1.sp)), And(z2[r], \H00ff))]
    IN  [z3 EXCEPT !.sp = Add16(@, 1)]

\* pop rr: low byte from (sp), sp++, high byte from (sp), sp++.
pop(zz, b, r) ==
    LET z1 == [zz EXCEPT ![r] = Or(Read(b, zz.sp), And(zz[r], \Hff00))]
        z2 == [z1 EXCEPT !.sp = Add16(@, 1)]
        z3 == [z2 EXCEPT ![r] = Or(Shl8(Read(b, z2.sp)), And(z2[r], \H00ff))]
    IN  [z3 EXCEPT !.sp = Add16(@, 1)]

\* push rr: sp--, high byte to (sp), sp--, low byte to (sp).
push_lowByteFirst(zz, b, r) ==
    \* a push that stores the low byte above the high byte
    LET z1 == [zz EXCEPT !.sp = Sub16(@, 1)]
        b1 == Write(b, z1.sp, ToByte(z1[r]))
        z2 == [z1 EXCEPT !.sp = Sub16(@, 1)]
        b2 == Write(b1, z2.sp, ToByte(Shr8(z2[r])))
    IN  [z |-> z2, bus |-> b2]

push(zz, b, r) ==
    LET z1 == [zz EXCEPT !.sp = Sub16(@, 1)]
        b1 == Write(b, z1.sp, ToByte(Shr8(z1[r])))
        z2 == [z1 EXCEPT !.sp = Sub16(@, 1)]
        b2 == Write(b1, z2.sp, ToByte(z2[r]))
    IN  [z |-> z2, bus |-> b2]

\* Whether the conditional opcode opc takes its branch with the flags of zz.
taken_poInverted(opc, zz) ==
    CASE opc = \H28 -> And(zz.af, zero) = zero
      [] opc = \Hc2 -> And(zz.af, zero) = 0
      [] opc = \Hc8 -> And(zz.af, zero) = zero
      [] opc = \Hca -> And(zz.af, zero) = zero
      [] opc = \Hd2 -> And(zz.af, carry) = 0
      [] opc = \Hda -> And(zz.af, carry) = carry
      [] opc = \He2 -> And(zz.af, parity) = parity
      [] opc = \Hea -> And(zz.af, parity) = parity
      [] opc = \Hf2 -> And(zz.af, sign) = 0
      [] opc = \Hfa -> And(zz.af, sign) = sign

taken(opc, zz) ==
    CASE opc = \H28 -> And(zz.af, zero) = zero
      [] opc = \Hc2 -> And(zz.af, zero) = 0
      [] opc = \Hc8 -> And(zz.af, zero) = zero
      [] opc = \Hca -> And(zz.af, zero) = zero
      [] opc = \Hd2 -> And(zz.af, carry) = 0
      [] opc = \Hda -> And(zz.af, carry) = carry
      [] opc = \He2 -> And(zz.af, parity) = 0
      [] opc = \Hea -> And(zz.af, parity) = parity
      [] opc = \Hf2 -> And(zz.af, sign) = 0
      [] opc = \Hfa -> And(zz.af, sign) = sign

\* What Step hands back: the register file, the bus and the error.
Res(zz, b, e) == [z |-> zz, bus |-> b, err |-> e]

\* jp nn and the taken jp cc,nn: load PC, charge the descriptor's cycles, return.
jump(zz, b, o) ==
    Res([zz EXCEPT !.pc = imm16(zz, b),
                   !.totalCycles = @ + o.noCycles], b, nil)

\* jr d and the taken jr z,d.
jumpRelative(zz, b, o) ==
    Res([zz EXCEPT !.pc = relTarget(zz, b),
                   !.totalCycles = @ + o.noCycles], b, nil)

retTaken_generic(zz, b, o) ==
    LET pc1 == Read(b, zz.sp)
        z1 == [zz EXCEPT !.sp = Add16(@, 1)]
        pc2 == Or(Shl8(Read(b, z1.sp)), And(pc1, \H00ff))
        z2 == [z1 EXCEPT !.sp = Add16(@, 1)]
    IN  Res([z2 EXCEPT !.totalCycles = @ + o.noCycles, !.pc = pc2], b, nil)

\* the taken ret z: pop PC, charge 11 cycles.
retTaken(zz, b, o) ==
    LET pc1 == Read(b, zz.sp)
        z1 == [zz EXCEPT !.sp = Add16(@, 1)]
        pc2 == Or(Shl8(Read(b, z1.sp)), And(pc1, \H00ff))
        z2 == [z1 EXCEPT !.sp = Add16(@, 1)]
    IN  Res([z2 EXCEPT !.totalCycles = @ + 11, !.pc = pc2], b, nil)

\* ret: pop PC, charge the descriptor's cycles.
ret(zz, b, o) ==
    LET pc1 == Read(b, zz.sp)
        z1 == [zz EXCEPT !.sp = Add16(@, 1)]
        pc2 == Or(Shl8(Read(b, z1.sp)), And(pc1, \H00ff))
        z2 == [z1 EXCEPT !.sp = Add16(@, 1)]
    IN  Res([z2 EXCEPT !.totalCycles = @ + o.noCycles, !.pc = pc2], b, nil)

call_pushesOwnAddress(zz, b, o) ==
    LET retPC == zz.pc
        z1 == [zz EXCEPT !.sp = Sub16(@, 1)]
        b1 == Write(b, z1.sp, ToByte(Shr8(retPC)))
        z2 == [z1 EXCEPT !.sp = Sub16(@, 1)]
        b2 == Write(b1, z2.sp, ToByte(retPC))
        z3 == [z2 EXCEPT !.pc = imm16(z2, b2)]
    IN  Res([z3 EXCEPT !.totalCycles = @ + o.noCycles], b2, nil)

\* call nn: push the address after the call, then load PC from the operand
\* (read after the two stack writes).
call(zz, b, o) ==
    LET retPC == Add16(zz.pc, o.noBytes)
        z1 == [zz EXCEPT !.sp = Sub16(@, 1)]
        b1 == Write(b, z1.sp, ToByte(Shr8(retPC)))
        z2 == [z1 EXCEPT !.sp = Sub16(@, 1)]
        b2 == Write(b1, z2.sp, ToByte(retPC))
        z3 == [z2 EXCEPT !.pc = imm16(z2, b2)]
    IN  Res([z3 EXCEPT !.totalCycles = @ + o.noCycles], b2, nil)

halt_advances(zz, b, o) ==
    Res([zz EXCEPT !.totalCycles = @ + o.noCycles,
                   !.pc = Add16(@, o.noBytes)], b, ErrHalt)

\* halt: charge the descriptor's cycles and return ErrHalt.
halt(zz, b, o) ==
    Res([zz EXCEPT !.totalCycles = @ + o.noCycles], b, ErrHalt)

(* ---------------------------------------------------------------------- *)
(* The index-register pages 0xdd (r = "ix") and 0xfd (r = "iy"), and the   *)
(* 0xed page.  Each reads the second byte, takes that page's descriptor    *)
(* and, for a handled second byte, ends in genericPostInstruction.         *)
(* ---------------------------------------------------------------------- *)
indexPrefix_skipsUnknown(zz, b, page, r) ==
    \* an index page that steps over the prefix byte before it reports an
    \* unknown second byte
    LET byte2 == Read(b, Add16(zz.pc, 1))
        opcodeStruct == page[byte2]
    IN  CASE byte2 = \H23 ->
               Res(genericPostInstruction([zz EXCEPT ![r] = Add16(@, 1)],
                                          opcodeStruct), b, nil)
          [] byte2 = \H2b ->
               Res(genericPostInstruction([zz EXCEPT ![r] = Sub16(@, 1)],
                                          opcodeStruct), b, nil)
          [] byte2 = \He1 ->
               Res(genericPostInstruction(pop(zz, b, r), opcodeStruct), b, nil)
          [] byte2 = \He5 ->
               LET p == push(zz, b, r)
               IN  Res(genericPostInstruction(p.z, opcodeStruct), p.bus, nil)
          [] OTHER ->
               Res([zz EXCEPT !.pc = Add16(@, 1)], b, ErrInvalidInstruction)

indexPrefix(zz, b, page, r) ==
    LET byte2 == Read(b, Add16(zz.pc, 1))
        opcodeStruct == page[byte2]
    IN  CASE byte2 = \H23 ->
               Res(genericPostInstruction([zz EXCEPT ![r] = Add16(@, 1)],
                                          opcodeStruct), b, nil)
          [] byte2 = \H2b ->
               Res(genericPostInstruction([zz EXCEPT ![r] = Sub16(@, 1)],
                                          opcodeStruct), b, nil)
          [] byte2 = \He1 ->
               Res(genericPostInstruction(pop(zz, b, r), opcodeStruct), b, nil)
          [] byte2 = \He5 ->
               LET p == push(zz, b, r)
               IN  Res(genericPostInstruction(p.z, opcodeStruct), p.bus, nil)
          [] OTHER -> Res(zz, b, ErrInvalidInstruction)

edPrefix_shiftBindsTighter(zz, b) ==
    \* neg reading z.af & (0xff00 >> 8), the flag byte, as the accumulator
    LET byte2 == Read(b, Add16(zz.pc, 1))
        opcodeStruct == opcodesED[byte2]
    IN  CASE byte2 = \H44 ->
               LET oldA == ToByte(And(zz.af, Shr8(\Hff00)))
                   newA == Sub8(0, oldA)
                   z1 == [zz EXCEPT !.af = Shl8(newA)]
                   z2 == evalS(z1, newA)
                   z3 == evalZ(z2, newA)
                   z4 == IF oldA = \H80 THEN setFlag(z3, parity)
                                        ELSE clearFlag(z3, parity)
                   z5 == setFlag(z4, addsub)
                   z6 == IF oldA # \H00 THEN setFlag(z5, carry)
                                        ELSE clearFlag(z5, carry)
               IN  Res(genericPostInstruction(z6, opcodeStruct), b, nil)
          [] OTHER -> Res(zz, b, ErrInvalidInstruction)

edPrefix(zz, b) ==
    LET byte2 == Read(b, Add16(zz.pc, 1))
        opcodeStruct == opcodesED[byte2]
    IN  CASE byte2 = \H44 ->
               LET oldA == ToByte(Shr8(And(zz.af, \Hff00)))
                   newA == Sub8(0, oldA)
                   z1 == [zz EXCEPT !.af = Shl8(newA)]
                   z2 == evalS(z1, newA)
                   z3 == evalZ(z2, newA)
                   z4 == IF oldA = \H80 THEN setFlag(z3, parity)
                                        ELSE clearFlag(z3, parity)
                   z5 == setFlag(z4, addsub)
                   z6 == IF oldA # \H00 THEN setFlag(z5, carry)
                                        ELSE clearFlag(z5, carry)
               IN  Res(genericPostInstruction(z6, opcodeStruct), b, nil)
          [] OTHER -> Res(zz, b, ErrInvalidInstruction)

(* ---------------------------------------------------------------------- *)
(* Step: executes the instruction PC points at.                            *)
(* ---------------------------------------------------------------------- *)
step(zz, b) ==
    LET opc == Read(b, zz.pc)
        opcodeStruct == opcodes[opc]
        n == Read(b, Add16(zz.pc, 1))
        a == ToByte(Shr8(zz.af))
        L(x) == And(x, \H00ff)
        H(x) == And(x, \Hff00)
        \* the end of the switch: pi(opcodeStruct); return nil
        Done(z1, b1) == Res(genericPostInstruction(z1, opcodeStruct), b1, nil)
        Set(r, v) == Done([zz EXCEPT ![r] = v], b)
        Put(addr, v) == Done(zz, Write(b, addr, v))
    IN  CASE opc = \H00 -> Done(zz, b)
          [] opc = \H01 -> Set("bc", imm16(zz, b))
          [] opc = \H02 -> Put(zz.bc, a)
          [] opc = \H03 -> Set("bc", Add16(zz.bc, 1))
          [] opc = \H04 -> Done(inc8H(zz, "bc"), b)
          [] opc = \H06 -> Set("bc", Or(Shl8(n), L(zz.bc)))
          [] opc = \H0a -> Set("af", Or(Shl8(Read(b, zz.bc)), L(zz.af)))
          [] opc = \H0b -> Set("bc", Sub16(zz.bc, 1))
          [] opc = \H0e -> Set("bc", Or(n, H(zz.bc)))
          [] opc = \H11 -> Set("de", imm16(zz, b))
          [] opc = \H12 -> Put(zz.de, a)
          [] opc = \H13 -> Set("de", Add16(zz.de, 1))
          [] opc = \H16 -> Set("de", Or(Shl8(n), L(zz.de)))
          [] opc = \H18 -> jumpRelative(zz, b, opcodeStruct)
          [] opc = \H1a -> Set("af", Or(Shl8(Read(b, zz.de)), L(zz.af)))
          [] opc = \H1b -> Set("de", Sub16(zz.de, 1))
          [] opc = \H1e -> Set("de", Or(n, H(zz.de)))
          [] opc = \H21 -> Set("hl", imm16(zz, b))
          [] opc = \H23 -> Set("hl", Add16(zz.hl, 1))
          [] opc = \H26 -> Set("hl", Or(Shl8(n), L(zz.hl)))
          [] opc = \H28 ->
               IF taken(opc, zz)
               THEN jumpRelative(zz, b, opcodeStruct)
               ELSE Done([zz EXCEPT !.totalCycles = @ + 7], b)
          [] opc = \H2b -> Set("hl", Sub16(zz.hl, 1))
          [] opc = \H2e -> Set("hl", Or(n, H(zz.hl)))
          [] opc = \H2f ->
               LET z1 == [zz EXCEPT !.af = Or(L(zz.af), And(Not16(zz.af), \Hff00))]
               IN  Done(setFlag(setFlag(z1, halfCarry), addsub), b)
          [] opc = \H31 -> Set("sp", imm16(zz, b))
          [] opc = \H32 -> Put(imm16(zz, b), a)
          [] opc = \H33 -> Set("sp", Add16(zz.sp, 1))
          [] opc = \H36 -> Put(zz.hl, n)
          [] opc = \H37 ->
               Done(setFlag(clearFlag(clearFlag(zz, halfCarry), addsub), carry), b)
          [] opc = \H3f ->
               LET z1 == IF And(zz.af, carry) = carry
                         THEN clearFlag(setFlag(zz, halfCarry), carry)
                         ELSE setFlag(clearFlag(zz, halfCarry), carry)
               IN  Done(clearFlag(z1, addsub), b)
          [] opc = \H3a -> Set("af", Shl8(Read(b, imm16(zz, b))))
          [] opc = \H3b -> Set("sp", Sub16(zz.sp, 1))
          [] opc = \H3c -> Done(inc8L(zz, "af"), b)
          [] opc = \H3e -> Set("af", Or(Shl8(n), L(zz.af)))
          [] opc = \H40 -> Done(zz, b)
          [] opc = \H41 -> Set("bc", Or(L(zz.bc), Shl8(zz.bc)))
          [] opc = \H42 -> Set("bc", Or(L(zz.bc), H(zz.de)))
          [] opc = \H43 -> Set("bc", Or(L(zz.bc), Shl8(zz.de)))
          [] opc = \H44 -> Set("bc", Or(L(zz.bc), H(zz.hl)))
          [] opc = \H45 -> Set("bc", Or(L(zz.bc), Shl8(zz.hl)))
          [] opc = \H46 -> Set("bc", Or(Shl8(Read(b, zz.hl)), L(zz.bc)))
          [] opc = \H47 -> Set("bc", Or(H(zz.af), L(zz.bc)))
          [] opc = \H48 -> Set("bc", Or(Shr8(zz.bc), H(zz.bc)))
          [] opc = \H49 -> Done(zz, b)
          [] opc = \H4a -> Set("bc", Or(H(zz.bc), Shr8(zz.de)))
          [] opc = \H4b -> Set("bc", Or(H(zz.bc), L(zz.de)))
          [] opc = \H4c -> Set("bc", Or(H(zz.bc), Shr8(zz.hl)))
          [] opc = \H4d -> Set("bc", Or(H(zz.bc), L(zz.hl)))
          [] opc = \H4e -> Set("bc", Or(Read(b, zz.hl), H(zz.bc)))
          [] opc = \H4f -> Set("bc", Or(H(zz.bc), Shr8(zz.af)))
          [] opc = \H50 -> Set("de", Or(H(zz.bc), L(zz.de)))
          [] opc = \H51 -> Set("de", Or(Shl8(zz.bc), L(zz.de)))
          [] opc = \H52 -> Done(zz, b)
          [] opc = \H53 -> Set("de", Or(L(zz.de), Shl8(zz.de)))
          [] opc = \H54 -> Set("de", Or(H(zz.hl), L(zz.de)))
          [] opc = \H55 -> Set("de", Or(Shl8(zz.hl), L(zz.de)))
          [] opc = \H56 -> Set("de", Or(Shl8(Read(b, zz.hl)), L(zz.de)))
          [] opc = \H57 -> Set("de", Or(H(zz.af), L(zz.de)))
          [] opc = \H58 -> Set("de", Or(Shr8(zz.bc), H(zz.de)))
          [] opc = \H59 -> Set("de", Or(L(zz.bc), H(zz.de)))
          [] opc = \H5a -> Set("de", Or(Shr8(zz.de), H(zz.de)))
          [] opc = \H5b -> Done(zz, b)
          [] opc = \H5c -> Set("de", Or(Shr8(zz.hl), H(zz.de)))
          [] opc = \H5d -> Set("de", Or(L(zz.hl), H(zz.de)))
          [] opc = \H5e -> Set("de", Or(Read(b, zz.hl), H(zz.de)))
          [] opc = \H5f -> Set("de", Or(Shr8(zz.af), H(zz.de)))
          [] opc = \H60 -> Set("hl", Or(L(zz.hl), H(zz.bc)))
          [] opc = \H61 -> Set("hl", Or(L(zz.hl), Shl8(zz.bc)))
          [] opc = \H62 -> Set("hl", Or(L(zz.hl), H(zz.de)))
          [] opc = \H63 -> Set("hl", Or(L(zz.hl), Shl8(zz.de)))
          [] opc = \H64 -> Done(zz, b)
          [] opc = \H65 -> Set("hl", Or(L(zz.hl), Shl8(zz.hl)))
          [] opc = \H66 -> Set("hl", Or(Shl8(Read(b, zz.hl)), L(zz.hl)))
          [] opc = \H67 -> Set("hl", Or(L(zz.hl), H(zz.af)))
          [] opc = \H68 -> Set("hl", Or(H(zz.hl), Shr8(zz.bc)))
          [] opc = \H69 -> Set("hl", Or(H(zz.hl), L(zz.bc)))
          [] opc = \H6a -> Set("hl", Or(H(zz.hl), Shr8(zz.de)))
          [] opc = \H6b -> Set("hl", Or(H(zz.hl), L(zz.de)))
          [] opc = \H6c -> Set("hl", Or(Shr8(zz.hl), H(zz.hl)))
          [] opc = \H6d -> Done(zz, b)
          [] opc = \H6e -> Set("hl", Or(Read(b, zz.hl), H(zz.hl)))
          [] opc = \H6f -> Set("hl", Or(H(zz.hl), Shr8(zz.af)))
          [] opc = \H70 -> Put(zz.hl, ToByte(Shr8(zz.bc)))
          [] opc = \H71 -> Put(zz.hl, ToByte(zz.bc))
          [] opc = \H72 -> Put(zz.hl, ToByte(Shr8(zz.de)))
          [] opc = \H73 -> Put(zz.hl, ToByte(zz.de))
          [] opc = \H74 -> Put(zz.hl, ToByte(Shr8(zz.hl)))
          [] opc = \H75 -> Put(zz.hl, ToByte(zz.hl))
          [] opc = \H76 -> halt(zz, b, opcodeStruct)
          [] opc = \H77 -> Put(zz.hl, a)
          [] opc = \H78 -> Set("af", Or(L(zz.af), H(zz.bc)))
          [] opc = \H79 -> Set("af", Or(L(zz.af), Shl8(zz.bc)))
          [] opc = \H7a -> Set("af", Or(L(zz.af), H(zz.de)))
          [] opc = \H7b -> Set("af", Or(L(zz.af), Shl8(zz.de)))
          [] opc = \H7c -> Set("af", Or(L(zz.af), H(zz.hl)))
          [] opc = \H7d -> Set("af", Or(L(zz.af), Shl8(zz.hl)))
          [] opc = \H7e -> Set("af", Or(Shl8(Read(b, zz.hl)), L(zz.af)))
          [] opc = \H7f -> Done(zz, b)
          [] opc = \Ha7 ->
               LET z1 == setFlag(evalZ(evalS(zz, a), a), halfCarry)
               IN  Done(clearFlag(clearFlag(z1, addsub), carry), b)
          [] opc = \Hbf -> Done(setFlag(evalZ(evalS(zz, a), a), addsub), b)
          [] opc = \Hc1 -> Done(pop(zz, b, "bc"), b)
          [] opc = \Hc2 ->
               IF taken(opc, zz) THEN jump(zz, b, opcodeStruct) ELSE Done(zz, b)
          [] opc = \Hc3 -> jump(zz, b, opcodeStruct)
          [] opc = \Hc5 -> LET p == push(zz, b, "bc") IN Done(p.z, p.bus)
          [] opc = \Hc8 ->
               IF taken(opc, zz) THEN retTaken(zz, b, opcodeStruct) ELSE Done(zz, b)
          [] opc = \Hc9 -> ret(zz, b, opcodeStruct)
          [] opc = \Hca ->
               IF taken(opc, zz) THEN jump(zz, b, opcodeStruct) ELSE Done(zz, b)
          [] opc = \Hcd -> call(zz, b, opcodeStruct)
          [] opc = \Hd1 -> Done(pop(zz, b, "de"), b)
          [] opc = \Hd2 ->
               IF taken(opc, zz) THEN jump(zz, b, opcodeStruct) ELSE Done(zz, b)
          [] opc = \Hd3 -> Done(zz, IOWrite(b, n, a))
          [] opc = \Hd5 -> LET p == push(zz, b, "de") IN Done(p.z, p.bus)
          [] opc = \Hda ->
               IF taken(opc, zz) THEN jump(zz, b, opcodeStruct) ELSE Done(zz, b)
          [] opc = \Hdb -> Set("af", Or(Shl8(IORead(b, n)), L(zz.af)))
          [] opc = \Hdd -> indexPrefix(zz, b, opcodesDD, "ix")
          [] opc = \He1 -> Done(pop(zz, b, "hl"), b)
          [] opc = \He2 ->
               IF taken(opc, zz) THEN jump(zz, b, opcodeStruct) ELSE Done(zz, b)
          [] opc = \He5 -> LET p == push(zz, b, "hl") IN Done(p.z, p.bus)
          [] opc = \He6 ->
               LET r == And(n, a)
                   z1 == [zz EXCEPT !.af = Or(Shl8(r), L(zz.af))]
                   z2 == setFlag(evalZ(evalS(z1, r), r), halfCarry)
               IN  Done(clearFlag(clearFlag(z2, addsub), carry), b)
          [] opc = \He9 ->
               Res([zz EXCEPT !.pc = zz.hl,
                              !.totalCycles = @ + opcodeStruct.noCycles], b, nil)
          [] opc = \Hea ->
               IF taken(opc, zz) THEN jump(zz, b, opcodeStruct) ELSE Done(zz, b)
          [] opc = \Heb -> Done([zz EXCEPT !.hl = zz.de, !.de = zz.hl], b)
          [] opc = \Hed -> edPrefix(zz, b)
          [] opc = \Hf1 -> Done(pop(zz, b, "af"), b)
          [] opc = \Hf2 ->
               IF taken(opc, zz) THEN jump(zz, b, opcodeStruct) ELSE Done(zz, b)
          [] opc = \Hf5 -> LET p == push(zz, b, "af") IN Done(p.z, p.bus)
          [] opc = \Hfa ->
               IF taken(opc, zz) THEN jump(zz, b, opcodeStruct) ELSE Done(zz, b)
          [] opc = \Hfd -> indexPrefix(zz, b, opcodesFD, "iy")
          [] OTHER -> Res(zz, b, Errorf(opc, zz.pc))

(* ---------------------------------------------------------------------- *)
(* The disassembler.  Strings are built as fmt.Sprintf builds them.        *)
(* ---------------------------------------------------------------------- *)
\* The descriptor the disassembler formats: the base entry, or for a
\* multi-byte lead byte the entry of its page for the next byte.
descriptorAt(b, address) ==
    LET o == opcodes[Read(b, address)]
        second == Read(b, Add16(address, 1))
    IN  IF o.multiByte
        THEN CASE Read(b, address) = \Hdd -> opcodesDD[second]
               [] Read(b, address) = \Hed -> opcodesED[second]
               [] Read(b, address) = \Hfd -> opcodesFD[second]
               [] OTHER -> o
        ELSE o

\* "$%04x" of address+2+uint16(int8(Read(address+1)))
displacementText(b, address) ==
    "$" \o Hex4(Add16(Add16(address, 2), SignExt(Read(b, Add16(address, 1)))))

word16At(b, address) ==
    Or(Read(b, Add16(address, 1)), Shl8(Read(b, Add16(address, 2))))

dstText(zz, b, o, address) ==
    CASE o.dst = "condition" -> o.dstR[zz.mode + 1]
      [] o.dst = "displacement" -> displacementText(b, address)
      [] o.dst = "registerIndirect" ->
           IF zz.mode = Mode8080 THEN o.dstR[zz.mode + 1]
           ELSE "(" \o o.dstR[zz.mode + 1] \o ")"
      [] o.dst = "immediate" -> "$" \o Hex2(Read(b, Add16(address, 1)))
      [] o.dst = "immediateExtended" -> "$" \o Hex4(word16At(b, address))
      [] o.dst = "register" -> o.dstR[zz.mode + 1]
      [] o.dst = "indirect" -> "($" \o Hex2(Read(b, Add16(address, 1))) \o ")"
      [] OTHER -> ""

srcText(zz, b, o, address) ==
    CASE o.src = "displacement" -> displacementText(b, address)
      [] o.src = "registerIndirect" ->
           IF zz.mode = Mode8080 THEN o.srcR[zz.mode + 1]
           ELSE "(" \o o.srcR[zz.mode + 1] \o ")"
      [] o.src = "extended" -> "($" \o Hex4(word16At(b, address)) \o ")"
      [] o.src = "immediate" -> "$" \o Hex2(Read(b, Add16(address, 1)))
      [] o.src = "immediateExtended" -> "$" \o Hex4(word16At(b, address))
      [] o.src = "register" -> o.srcR[zz.mode + 1]
      [] o.src = "indirect" -> "($" \o Hex2(Read(b, Add16(address, 1))) \o ")"
      [] OTHER -> ""

DisassembleComponents_keepsLength(zz, b, address) ==
    LET o == descriptorAt(b, address)
    IN  [opc |-> IF Len(o.mnemonic) = 0 THEN "INVALID"
                 ELSE o.mnemonic[zz.mode + 1],
         dst |-> dstText(zz, b, o, address),
         src |-> srcText(zz, b, o, address),
         noBytes |-> o.noBytes]

DisassembleComponents(zz, b, address) ==
    LET o == descriptorAt(b, address)
    IN  [opc |-> IF Len(o.mnemonic) = 0 THEN "INVALID"
                 ELSE o.mnemonic[zz.mode + 1],
         dst |-> dstText(zz, b, o, address),
         src |-> srcText(zz, b, o, address),
         noBytes |-> IF Len(o.mnemonic) = 0 THEN 1 ELSE o.noBytes]

(* ---------------------------------------------------------------------- *)
(* Initial states.  New() gives a zeroed register file; every register     *)
(* value used here is one a program reaches with loads, pops and jumps.    *)
(* The memory image holds a subroutine (a lone ret) at 0x1234, two data    *)
(* bytes at the top of the stack and the program at PC.                    *)
(* ---------------------------------------------------------------------- *)
EmptyMap == [x \in {} |-> 0]

RECURSIVE Load(_, _, _)
Load(m, addr, prog) ==
    IF prog = <<>> THEN m
    ELSE Load(Store(m, addr, Head(prog)), Add16(addr, 1), Tail(prog))

Image(pc, sp, prog) ==
    Load(Load(Store(EmptyMap, \H1234, \Hc9), sp, <<\H11, \H22>>), pc, prog)

Boot(pc, sp, af, v, mode, prog) ==
    [z |-> [af |-> af, bc |-> v, de |-> Add16(v, \H0202),
            hl |-> Add16(v, \H0404), ix |-> Add16(v, \H0606),
            iy |-> Add16(v, \H0808), pc |-> pc, sp |-> sp,
            totalCycles |-> 0, mode |-> mode],
     bus |-> [mem |-> Image(pc, sp, prog),
              io |-> Store(EmptyMap, \H34, \H5a)]]

Operands == {<<\H34, \H12>>, <<\Hfe, \Hff>>, <<\H80, \H00>>}
FlagBytes == {\H00, \H01, \H04, \H40, \H80, \Hff, \Hfe, \Hfb, \Hbf, \H7f}
Conditionals == {\H28, \Hc2, \Hc8, \Hca, \Hd2, \Hda, \He2, \Hea, \Hf2, \Hfa}

\* every first byte, at an ordinary address and at the top of memory
Sweep ==
    {Boot(pc, \H8000, af, \H0102, mode, <<b0, \H34, \H12, \H00>>) :
        pc \in {\H0100, \Hffff}, af \in {\H5500, \Haaff},
        mode \in {ModeZ80, Mode8080}, b0 \in 0..255}

\* every second byte of the three prefix pages, followed by a pop of the
\* page's index register
PrefixSweep ==
    {Boot(\H0100, sp, \H5500, \H0102, ModeZ80, <<b0, b1, b0, \He1>>) :
        b0 \in {\Hdd, \Hed, \Hfd}, b1 \in 0..255, sp \in {\H8000, \H0001}}

\* push rr followed by pop rr, with stacks that wrap and stacks that
\* overlap the program
Stack ==
    {Boot(\H0100, sp, v, v, ModeZ80, <<b0, b0 - 4, \H00, \H00>>) :
        b0 \in {\Hc5, \Hd5, \He5, \Hf5},
        sp \in {\H0000, \H0001, \H0002, \H0103, \H8000},
        v \in {\H1234, \Hff00, \H00c1}}

\* the branches under every single flag set and every single flag clear
Flags ==
    {Boot(\H0100, \H8000, f, \H0102, ModeZ80, <<b0, o[1], o[2], \H00>>) :
        b0 \in Conditionals \cup {\H18}, f \in FlagBytes, o \in Operands}

\* the 8-bit increments at their boundary values
Inc ==
    {Boot(\H0100, \H8000, af, v, ModeZ80, <<b0, \H00, \H00, \H00>>) :
        b0 \in {\H04, \H3c},
        af \in {\H007f, \H00ff, \H7f00, \H7f01, \Hff00, \H0001, \H0f00},
        v \in {\H7f00, \Hff00, \H0f34, \H7fff, \Hffff}}

\* the 16-bit immediate loads, with operands that straddle 0xffff
LoadImm ==
    {Boot(pc, \H8000, \H55aa, \H0102, ModeZ80, <<b0, o[1], o[2], \H00>>) :
        b0 \in {\H01, \H11, \H21, \H31},
        pc \in {\H0100, \Hfffd, \Hfffe}, o \in Operands}

\* call 0x1234 with stacks that wrap, that overlap the subroutine and that
\* overlap the call's own operand
CallRet ==
    {Boot(pc, sp, \H5500, \H0102, ModeZ80, <<\Hcd, \H34, \H12, \H00>>) :
        pc \in {\H0100, \Hfffd, \Hfffe},
        sp \in {\H0000, \H0001, \H8000, \H1235, \H1236, \H0102, \H0103}}

\* short programs that end in halt, and one that never ends (jr to itself)
Programs ==
    {Boot(\H0100, \H8000, \H5500, \H0102, mode, prog) :
        mode \in {ModeZ80, Mode8080},
        prog \in {<<\H00, \H76, \H00, \H00>>, <<\H04, \H76, \H00, \H00>>,
                  <<\H00, \H00, \H76, \H00>>, <<\H18, \Hfe, \H76, \H00>>}}

\* and a and and n over accumulators, operands and entry flag bytes of both
\* parities
Logic ==
    {Boot(\H0100, \H8000, a * ByteMod + f, \H0102, ModeZ80,
          <<b0, n, \H00, \H00>>) :
        b0 \in {\Ha7, \He6}, a \in {\H00, \H01, \H03, \H0f, \H80, \Hff},
        n \in {\H00, \H03, \H81, \Hff}, f \in {\H00, \Hff}}

\* neg over every accumulator
Negate ==
    {Boot(\H0100, \H8000, a * ByteMod + f, \H0102, ModeZ80,
          <<\Hed, \H44, \H00, \H00>>) :
        a \in 0..255, f \in {\H00, \Hff}}

Scenarios ==
    Sweep \cup PrefixSweep \cup Stack \cup Flags \cup Inc \cup LoadImm
          \cup CallRet \cup Programs \cup Logic \cup Negate

NoDis ==
    [called |-> FALSE, address |-> 0,
     out |-> [opc |-> "", dst |-> "", src |-> "", noBytes |-> 0]]

(* ---------------------------------------------------------------------- *)
(* Disassemble: the operand texts joined by a comma when both are there,   *)
(* behind the mnemonic, formatted with "%-6v%-4v" (left aligned, padded    *)
(* with spaces to 6 and 4 characters, never truncated).                    *)
(* ---------------------------------------------------------------------- *)
Spaces == <<" ", "  ", "   ", "    ", "     ", "      ">>

PadRight(s, n) == IF Len(s) >= n THEN s ELSE s \o Spaces[n - Len(s)]

Disassemble(zz, b, address) ==
    LET c == DisassembleComponents(zz, b, address)
        src == IF c.dst # "" /\ c.src # "" THEN "," \o c.src ELSE c.src
        dst == c.dst \o src
    IN  [s |-> PadRight(c.opc, 6) \o PadRight(dst, 4), noBytes |-> c.noBytes]

NoText == [called |-> FALSE, address |-> 0, s |-> "", noBytes |-> 0]

(* ---------------------------------------------------------------------- *)
(* DumpRegisters: the eight register pairs as "$%04x" and the flag byte as *)
(* eight characters, sign first.                                           *)
(* ---------------------------------------------------------------------- *)
FlagChar(zz, f, set, clear) == IF And(zz.af, f) = f THEN set ELSE clear

DumpRegisters(zz) ==
    LET flags == FlagChar(zz, sign, "S", "-") \o FlagChar(zz, zero, "Z", "-")
                 \o FlagChar(zz, unused2, "1", "0")
                 \o FlagChar(zz, halfCarry, "H", "-")
                 \o FlagChar(zz, unused, "1", "0")
                 \o FlagChar(zz, parity, "P", "-")
                 \o FlagChar(zz, addsub, "N", "-")
                 \o FlagChar(zz, carry, "C", "-")
    IN  "af $" \o Hex4(zz.af) \o " bc $" \o Hex4(zz.bc)
        \o " de $" \o Hex4(zz.de) \o " hl $" \o Hex4(zz.hl)
        \o " ix $" \o Hex4(zz.ix) \o " iy $" \o Hex4(zz.iy)
        \o " pc $" \o Hex4(zz.pc) \o " sp $" \o Hex4(zz.sp)
        \o " f " \o flags \o " "

(* ---------------------------------------------------------------------- *)
(* Reset: the memory reset of a cold reset is commented out in the source, *)
(* so both kinds of reset assign the program counter and nothing else.     *)
(* ---------------------------------------------------------------------- *)
Reset_clearsCycles(zz, b, cold) ==
    \* a reset that also restarts the cycle counter
    [z |-> [zz EXCEPT !.pc = 0, !.totalCycles = 0], bus |-> b]

Reset(zz, b, cold) == [z |-> [zz EXCEPT !.pc = 0], bus |-> b]

NoReset ==
    [called |-> FALSE, cold |-> FALSE,
     bus |-> [mem |-> EmptyMap, io |-> EmptyMap]]

(* ---------------------------------------------------------------------- *)
(* Trace: one pass of its loop.  t is the call's position: the two logs    *)
(* built so far, the result of every Step call made so far (errs), and     *)
(* once the loop has returned, the error handed to the caller.             *)
(* ---------------------------------------------------------------------- *)
NoTrace ==
    [state |-> "idle", trace |-> <<>>, registers |-> <<>>, errs |-> <<>>,
     err |-> nil]

dumpUnlessReturning(t, r) ==
    \* a loop that tests the error before it logs the registers
    IF r.err # nil THEN t.registers
    ELSE Append(t.registers, DumpRegisters(r.z))

dumpOf(t, r) == Append(t.registers, DumpRegisters(r.z))

traceLoop(zz, t, d, r) ==
    [state |-> IF r.err # nil THEN "returned" ELSE "running",
     trace |-> Append(t.trace, Hex4(zz.pc) \o ": " \o d.s),
     registers |-> dumpOf(t, r),
     errs |-> Append(t.errs, r.err),
     err |-> r.err]

Init ==
    \E s \in Scenarios :
        /\ z = s.z
        /\ bus = s.bus
        /\ last = [called |-> FALSE, err |-> nil, z |-> s.z, bus |-> s.bus]
        /\ prev = [called |-> FALSE, err |-> nil, z |-> s.z, bus |-> s.bus]
        /\ dis = NoDis
        /\ text = NoText
        /\ rst = NoReset
        /\ tr = NoTrace
        /\ steps = 0

(* ---------------------------------------------------------------------- *)
(* Actions.  last and prev remember the two most recent Step calls of an   *)
(* unbroken run of Step calls: the error returned and the register file    *)
(* and bus the call started from.  dis and text hold what the latest       *)
(* disassembler call returned, rst the latest Reset call and the bus it    *)
(* started from, tr the position of the Trace call.  steps counts the      *)
(* calls that change the machine, which MaxSteps bounds.  Trace does not   *)
(* return to its caller between two passes of its loop, so no other        *)
(* operation starts while a Trace call is running.                         *)
(* ---------------------------------------------------------------------- *)
Idle == tr.state # "running"

Step ==
    /\ Idle
    /\ steps < MaxSteps
    /\ LET r == step(z, bus)
       IN  /\ z' = r.z
           /\ bus' = r.bus
           /\ last' = [called |-> TRUE, err |-> r.err, z |-> z, bus |-> bus]
    /\ prev' = last
    /\ dis' = NoDis
    /\ text' = NoText
    /\ rst' = NoReset
    /\ tr' = NoTrace
    /\ steps' = steps + 1

ResetCall ==
    /\ Idle
    /\ steps < MaxSteps
    /\ \E cold \in BOOLEAN :
           LET r == Reset(z, bus, cold)
           IN  /\ z' = r.z
               /\ bus' = r.bus
               /\ rst' = [called |-> TRUE, cold |-> cold, bus |-> bus]
               /\ last' = [called |-> FALSE, err |-> nil,
                           z |-> r.z, bus |-> r.bus]
               /\ prev' = [called |-> FALSE, err |-> nil,
                           z |-> r.z, bus |-> r.bus]
    /\ dis' = NoDis
    /\ text' = NoText
    /\ tr' = NoTrace
    /\ steps' = steps + 1

Disassembly_advancesPC ==
    \* a disassembler that moves the program counter past what it decoded
    /\ Idle
    /\ \E address \in {z.pc, Add16(z.pc, 1), \Hffff} :
           \E out \in {DisassembleComponents(z, bus, address)} :
               /\ dis' = [called |-> TRUE, address |-> address, out |-> out]
               /\ z' = [z EXCEPT !.pc = Add16(address, out.noBytes)]
    /\ text' = NoText
    /\ UNCHANGED <<bus, last, prev, rst, tr, steps>>

Disassembly ==
    /\ Idle
    /\ \E address \in {z.pc, Add16(z.pc, 1), \Hffff} :
           dis' = [called |-> TRUE, address |-> address,
                   out |-> DisassembleComponents(z, bus, address)]
    /\ text' = NoText
    /\ UNCHANGED <<z, bus, last, prev, rst, tr, steps>>

DisassembleCall ==
    /\ Idle
    /\ \E address \in {z.pc, \Hffff} :
           \E d \in {Disassemble(z, bus, address)} :
               text' = [called |-> TRUE, address |-> address,
                        s |-> d.s, noBytes |-> d.noBytes]
    /\ dis' = NoDis
    /\ UNCHANGED <<z, bus, last, prev, rst, tr, steps>>

TraceCall ==
    /\ Idle
    /\ steps < MaxSteps
    /\ tr' = [NoTrace EXCEPT !.state = "running"]
    /\ dis' = NoDis
    /\ text' = NoText
    /\ rst' = NoReset
    /\ UNCHANGED <<z, bus, last, prev, steps>>

TraceLoop ==
    /\ tr.state = "running"
    /\ steps < MaxSteps
    /\ \E d \in {Disassemble(z, bus, z.pc)}, r \in {step(z, bus)} :
           /\ z' = r.z
           /\ bus' = r.bus
           /\ tr' = traceLoop(z, tr, d, r)
           /\ last' = [called |-> TRUE, err |-> r.err, z |-> z, bus |-> bus]
    /\ prev' = last
    /\ UNCHANGED <<dis, text, rst>>
    /\ steps' = steps + 1

Next ==
    \/ Step
    \/ ResetCall
    \/ Disassembly
    \/ DisassembleCall
    \/ TraceCall
    \/ TraceLoop

Spec == Init /\ [][Next]_vars

(* ---------------------------------------------------------------------- *)
(* Vocabulary of the properties.                                           *)
(* ---------------------------------------------------------------------- *)
\* The opcode byte and the following byte that the last Step call fetched.
LastOpc == Read(last.bus, last.z.pc)
LastByte2 == Read(last.bus, Add16(last.z.pc, 1))
PrevOpc == Read(prev.bus, prev.z.pc)
PrevByte2 == Read(prev.bus, Add16(prev.z.pc, 1))

\* The descriptor of the instruction the last Step call executed: the base
\* page's, or for a prefixed instruction its own page's.
LastDescriptor ==
    CASE LastOpc = \Hdd -> opcodesDD[LastByte2]
      [] LastOpc = \Hed -> opcodesED[LastByte2]
      [] LastOpc = \Hfd -> opcodesFD[LastByte2]
      [] OTHER -> opcodes[LastOpc]

\* The opcodes that alter control flow: jr, jr z, halt, jp cc, jp, ret z,
\* ret, call, jp (hl).
ControlTransfer ==
    {\H18, \H28, \H76, \Hc2, \Hc3, \Hc8, \Hc9, \Hca, \Hcd, \Hd2, \Hda,
     \He2, \He9, \Hea, \Hf2, \Hfa}

Flag(zz, f) == And(zz.af, f) = f

CyclesAdded == z.totalCycles - last.z.totalCycles

(* ---------------------------------------------------------------------- *)
(* C1.  Every Step that executes an opcode that does not alter control     *)
(* flow (a handled second byte of the 0xdd, 0xed and 0xfd pages included,  *)
(* with its own page's descriptor) increases PC by that descriptor's byte  *)
(* length modulo 2^16 and the cycle counter by that descriptor's cycle     *)
(* count, once.                                                            *)
(* ---------------------------------------------------------------------- *)
C1_DefaultPostInstruction ==
    (last.called /\ last.err = nil /\ LastOpc \notin ControlTransfer)
        => /\ z.pc = (last.z.pc + LastDescriptor.noBytes) % Word
           /\ z.totalCycles = last.z.totalCycles + LastDescriptor.noCycles

\* neg, a two-byte instruction of the 0xed page, has been stepped and charged
\* by the 0xed page's descriptor
C1_Witness ==
    /\ last.called /\ last.err = nil
    /\ LastOpc = \Hed /\ LastByte2 = \H44
    /\ z.pc = Add16(last.z.pc, 2) /\ CyclesAdded = 8

(* ---------------------------------------------------------------------- *)
(* C2.  Every conditional control-transfer opcode Step handles takes its   *)
(* branch iff its condition holds in the flag byte at entry (nz zero       *)
(* clear, z zero set, nc carry clear, c carry set, po parity clear, pe     *)
(* parity set, p sign clear, m sign set): taken, PC is the branch target;  *)
(* not taken, PC is the entry PC plus the instruction length.              *)
(* ---------------------------------------------------------------------- *)
\* bit k (a power of two) of the flag byte at entry
EntryFlag(k) == ((last.z.af % 256) \div k) % 2 = 1

ConditionHolds ==
    CASE LastOpc = \Hc2 -> ~EntryFlag(64)
      [] LastOpc \in {\H28, \Hc8, \Hca} -> EntryFlag(64)
      [] LastOpc = \Hd2 -> ~EntryFlag(1)
      [] LastOpc = \Hda -> EntryFlag(1)
      [] LastOpc = \He2 -> ~EntryFlag(4)
      [] LastOpc = \Hea -> EntryFlag(4)
      [] LastOpc = \Hf2 -> ~EntryFlag(128)
      [] LastOpc = \Hfa -> EntryFlag(128)
      [] OTHER -> FALSE

\* the byte the last Step call would read at offset k from its PC / SP
OperandByte(k) == Read(last.bus, (last.z.pc + k) % Word)
StackByte(k) == Read(last.bus, (last.z.sp + k) % Word)

Signed8(d) == IF d >= 128 THEN d - 256 ELSE d

BranchTarget ==
    CASE LastOpc = \H28 ->
           (last.z.pc + 2 + Signed8(OperandByte(1)) + Word) % Word
      [] LastOpc = \Hc8 -> StackByte(0) + 256 * StackByte(1)
      [] OTHER -> OperandByte(1) + 256 * OperandByte(2)

\* C2: after a Step of a conditional opcode, PC is the branch target if the
\* opcode's condition held in the flag byte at entry, and the entry PC plus
\* the descriptor's byte length if it did not.
C2_BranchIffCondition ==
    (last.called /\ LastOpc \in Conditionals)
        => /\ last.err = nil
           /\ z.pc = IF ConditionHolds THEN BranchTarget
                     ELSE (last.z.pc + opcodes[LastOpc].noBytes) % Word

\* jp po,0x1234 was stepped with the parity flag clear and the sign flag set,
\* and was taken
C2_Witness ==
    /\ last.called /\ LastOpc = \He2
    /\ last.z.af % 256 = \Hfb
    /\ last.z.pc = \H0100 /\ z.pc = \H1234

(* ---------------------------------------------------------------------- *)
(* C3.  The cycles a conditional jump or return adds when it is taken and  *)
(* when it is not.  OtherPath is the same Step from the same state with    *)
(* every flag inverted, which is the other side of the branch.             *)
(* ---------------------------------------------------------------------- *)
OtherPath ==
    step([last.z EXCEPT !.af = (@ \div 256) * 256 + (255 - (@ % 256))],
         last.bus)

OtherCyclesAdded == OtherPath.z.totalCycles - last.z.totalCycles

PushedPair(opc, byte2) ==
    CASE opc = \Hc5 -> "bc"
      [] opc = \Hd5 -> "de"
      [] opc = \He5 -> "hl"
      [] opc = \Hf5 -> "af"
      [] opc = \Hdd /\ byte2 = \He5 -> "ix"
      [] opc = \Hfd /\ byte2 = \He5 -> "iy"
      [] OTHER -> "none"

PoppedPair(opc, byte2) ==
    CASE opc = \Hc1 -> "bc"
      [] opc = \Hd1 -> "de"
      [] opc = \He1 -> "hl"
      [] opc = \Hf1 -> "af"
      [] opc = \Hdd /\ byte2 = \He1 -> "ix"
      [] opc = \Hfd /\ byte2 = \He1 -> "iy"
      [] OTHER -> "none"

PushThenPop ==
    /\ prev.called /\ last.called
    /\ PushedPair(PrevOpc, PrevByte2) # "none"
    /\ PoppedPair(LastOpc, LastByte2) = PushedPair(PrevOpc, PrevByte2)

\* C4: after push rr then pop rr, rr and SP equal their values before the
\* push.
C4_PushPopRestores ==
    PushThenPop
        => /\ z[PushedPair(PrevOpc, PrevByte2)]
                = prev.z[PushedPair(PrevOpc, PrevByte2)]
           /\ z.sp = prev.z.sp

\* push ix from SP = 0x0001, which wraps to 0xffff, then pop ix
C4_Witness ==
    /\ PushThenPop
    /\ PushedPair(PrevOpc, PrevByte2) = "ix"
    /\ prev.z.sp = \H0001 /\ last.z.sp = \Hffff
    /\ Read(last.bus, \H0000) = \H07 /\ Read(last.bus, \Hffff) = \H08
    /\ z.ix = \H0708 /\ z.sp = \H0001

(* ---------------------------------------------------------------------- *)
(* C5.  When call nn (0xcd) at address P is stepped and the instruction    *)
(* at nn is ret (0xc9), stepped next, PC ends at P plus the call's byte    *)
(* length and SP at its value before the call; between the two steps the   *)
(* two bytes at SP hold that return address.                               *)
(* ---------------------------------------------------------------------- *)
CallThenRet ==
    /\ prev.called /\ last.called
    /\ PrevOpc = \Hcd /\ LastOpc = \Hc9

\* C5: after call the two bytes at SP hold the address after the call; after
\* call then ret, PC is that address and SP is as before the call.
C5_CallRet ==
    /\ (last.called /\ LastOpc = \Hcd)
          => LET after == (last.z.pc + opcodes[\Hcd].noBytes) % Word
             IN  /\ Read(bus, z.sp) = after % 256
                 /\ Read(bus, (z.sp + 1) % Word) = after \div 256
    /\ CallThenRet
          => /\ last.err = nil
             /\ z.pc = (prev.z.pc + opcodes[\Hcd].noBytes) % Word
             /\ z.sp = prev.z.sp

\* call 0x1234 at 0x0100 with SP = 0x0001: the return address 0x0103 went to
\* 0x0000 and 0xffff, the ret at 0x1234 came back to it
C5_Witness ==
    /\ CallThenRet
    /\ prev.z.pc = \H0100 /\ prev.z.sp = \H0001
    /\ last.z.pc = \H1234 /\ last.z.sp = \Hffff
    /\ Read(last.bus, \H0000) = \H01 /\ Read(last.bus, \Hffff) = \H03
    /\ z.pc = \H0103 /\ z.sp = \H0001

(* ---------------------------------------------------------------------- *)
(* C6.  When PC points at halt (0x76), Step returns ErrHalt, adds the      *)
(* halt descriptor's cycle count to the cycle counter once and leaves PC   *)
(* and every other register unchanged.                                     *)
(* ---------------------------------------------------------------------- *)
C6_Halt ==
    (last.called /\ LastOpc = \H76)
        => /\ last.err = ErrHalt
           /\ z = [last.z EXCEPT
                     !.totalCycles = @ + opcodes[\H76].noCycles]
           /\ bus = last.bus

\* halt was stepped twice at 0xffff: PC stayed, the cost was charged twice
C6_Witness ==
    /\ prev.called /\ last.called
    /\ PrevOpc = \H76 /\ LastOpc = \H76
    /\ last.err = ErrHalt /\ z.pc = \Hffff
    /\ z.totalCycles = 2 * opcodes[\H76].noCycles

(* ---------------------------------------------------------------------- *)
(* C7.  As claimed: Step reports the same Invalid-Instruction signal       *)
(* (ErrInvalidInstruction, never ErrHalt, never nil) for a first byte      *)
(* without a handler and for a second byte without a handler in the 0xdd,  *)
(* 0xed or 0xfd page, and in both cases the signal carries the offending   *)
(* byte and its address.                                                   *)
(* ---------------------------------------------------------------------- *)
Carries(e, byte, address) ==
    e.text = "invalid instruction: 0x" \o Hex2(byte) \o " @ 0x" \o Hex4(address)

StepFailed == last.called /\ last.err # nil /\ last.err # ErrHalt

\* C7 as claimed: every failing Step returns ErrInvalidInstruction and its
\* text names the offending byte and its address.
C7_Claimed_InvalidSignal ==
    StepFailed
        => /\ last.err.id = ErrInvalidInstruction.id
           /\ IF LastOpc \in {\Hdd, \Hed, \Hfd}
              THEN \/ Carries(last.err, LastByte2, Add16(last.z.pc, 1))
                   \/ Carries(last.err, LastByte2, last.z.pc)
                   \/ Carries(last.err, LastOpc, last.z.pc)
              ELSE Carries(last.err, LastOpc, last.z.pc)

(* ---------------------------------------------------------------------- *)
(* C8.  The flags after an 8-bit increment at the boundary values.         *)
(* inc b is inc8H on BC; inc a is inc8L on AF, whose low byte, the byte    *)
(* inc8L increments, is the flag byte.                                     *)
(* ---------------------------------------------------------------------- *)
IncB(v) == last.called /\ LastOpc = \H04 /\ last.z.bc \div 256 = v
IncA(v) == last.called /\ LastOpc = \H3c /\ last.z.af % 256 = v

LoadTarget ==
    CASE LastOpc = \H01 -> "bc"
      [] LastOpc = \H11 -> "de"
      [] LastOpc = \H21 -> "hl"
      [] LastOpc = \H31 -> "sp"
      [] OTHER -> "none"

\* C9: after ld rr,nn the register is lo + 256*hi, PC has advanced by 3, and
\* AF, the other registers and memory are unchanged.
C9_LoadImmediate16 ==
    (last.called /\ LoadTarget # "none")
        => /\ last.err = nil
           /\ z[LoadTarget] = OperandByte(1) + 256 * OperandByte(2)
           /\ z.pc = (last.z.pc + 3) % Word
           /\ \A r \in {"af", "bc", "de", "hl", "ix", "iy", "sp"} \ {LoadTarget} :
                 z[r] = last.z[r]
           /\ bus = last.bus

\* ld sp,0x1234 at 0xfffe, its operand bytes 0x34 at 0xffff and 0x12 at
\* 0x0000
C9_Witness ==
    /\ last.called /\ LastOpc = \H31 /\ last.z.pc = \Hfffe
    /\ OperandByte(1) = \H34 /\ OperandByte(2) = \H12
    /\ z.sp = \H1234 /\ z.pc = \H0001 /\ z.af = last.z.af

(* ---------------------------------------------------------------------- *)
(* C10.  For every memory content and address DisassembleComponents        *)
(* reports a length of at least 1; for an opcode without a table entry (an *)
(* unknown second byte after 0xdd, 0xed or 0xfd included) it returns       *)
(* "INVALID", empty operands and length exactly 1; nop yields its mnemonic *)
(* with no operands and length 1.                                          *)
(* ---------------------------------------------------------------------- *)
NoTableEntry(address) ==
    LET first == Read(bus, address)
        second == Read(bus, (address + 1) % Word)
    IN  CASE first = \Hdd -> opcodesDD[second] = noOpcode
          [] first = \Hed -> opcodesED[second] = noOpcode
          [] first = \Hfd -> opcodesFD[second] = noOpcode
          [] OTHER -> opcodes[first] = noOpcode

\* C10: every result of DisassembleComponents has length >= 1; without a
\* table entry it is ("INVALID", "", "", 1); for nop it is ("nop", "", "", 1).
C10_DisassemblerProgress ==
    dis.called
        => /\ dis.out.noBytes >= 1
           /\ NoTableEntry(dis.address)
                 => dis.out = [opc |-> "INVALID", dst |-> "", src |-> "",
                               noBytes |-> 1]
           /\ Read(bus, dis.address) = \H00
                 => dis.out = [opc |-> "nop", dst |-> "", src |-> "",
                               noBytes |-> 1]

\* 0xdd followed by a byte the 0xdd page does not know was disassembled
C10_Witness ==
    /\ dis.called /\ Read(bus, dis.address) = \Hdd
    /\ Read(bus, Add16(dis.address, 1)) = \H05
    /\ dis.out.opc = "INVALID" /\ dis.out.noBytes = 1

(* ---------------------------------------------------------------------- *)
(* C11.  Disassemble and DisassembleComponents leave every register, the   *)
(* flag byte, PC, SP, the cycle counter, memory and the IO space as they   *)
(* were: they only read memory.                                            *)
(* ---------------------------------------------------------------------- *)
\* A transition in which one of the two disassembler entry points returned.
Disassembled ==
    \/ dis'.called /\ dis' # dis
    \/ text'.called /\ text' # text

\* C11: a call of Disassemble or DisassembleComponents changes neither the
\* register file (cycle counter included) nor the bus (memory and IO).
C11_DisassemblerReadsOnly == [][Disassembled => z' = z /\ bus' = bus]_vars

\* after a Step that cost cycles and wrote the stack, the instruction at the
\* new PC was formatted by Disassemble
C11_Witness ==
    /\ text.called /\ text.address = z.pc /\ text.noBytes >= 1
    /\ last.called /\ z.totalCycles > 0 /\ bus # last.bus


(* ---------------------------------------------------------------------- *)
(* C12.  Trace keeps stepping while Step reports normal completion and     *)
(* returns exactly after the first Step that reports Halt or an invalid    *)
(* instruction, returning that signal; it returns for no other reason; at  *)
(* return the instruction log and the register log have the same length,   *)
(* the number of Steps executed, the terminating one included.             *)
(* ---------------------------------------------------------------------- *)
\* The number of Step calls the Trace call has made.
TraceSteps == Len(tr.errs)

\* The signals Step reports other than normal completion.
StopSignal(e) ==
    \/ e = ErrHalt
    \/ e = ErrInvalidInstruction
    \/ e.id = "fmt.Errorf"

\* C12: while Trace runs every Step so far completed normally and the loop
\* can take another pass; once it has returned, its last Step and no earlier
\* one reported Halt or an invalid instruction, that signal is what Trace
\* returned, and both logs have one entry per Step.
C12_TraceReturns ==
    /\ tr.state = "running"
          => /\ \A i \in 1..TraceSteps : tr.errs[i] = nil
             /\ Len(tr.trace) = TraceSteps
             /\ Len(tr.registers) = TraceSteps
             /\ steps < MaxSteps => ENABLED TraceLoop
    /\ tr.state = "returned"
          => /\ TraceSteps >= 1
             /\ \A i \in 1..(TraceSteps - 1) : tr.errs[i] = nil
             /\ StopSignal(tr.errs[TraceSteps])
             /\ tr.err = tr.errs[TraceSteps]
             /\ last.called /\ last.err = tr.err
             /\ Len(tr.trace) = TraceSteps
             /\ Len(tr.registers) = TraceSteps

\* Trace ran nop and then halt at 0x0101: it returned Halt after two Steps
\* with two lines in each log
C12_Witness ==
    /\ tr.state = "returned" /\ tr.err = ErrHalt /\ TraceSteps = 2
    /\ tr.errs[1] = nil
    /\ tr.trace = <<"0100: nop       ", "0101: halt      ">>
    /\ Len(tr.registers) = 2
    /\ z.pc = \H0101


(* ---------------------------------------------------------------------- *)
(* C13.  Reset sets PC to 0 for both values of cold; after Reset(true)     *)
(* memory is zeroed, after Reset(false) memory is unchanged.               *)
(* ---------------------------------------------------------------------- *)
\* Every memory cell reads 0x00 (Store keeps no cell that holds 0x00).
MemoryZeroed(b) == b.mem = EmptyMap

\* C13 as claimed: after Reset PC is 0; after a cold reset every memory cell
\* is 0x00, after a warm reset memory is what it was.
C13_Claimed_Reset ==
    rst.called
        => /\ z.pc = 0
           /\ rst.cold => MemoryZeroed(bus)
           /\ ~rst.cold => bus.mem = rst.bus.mem


(* ---------------------------------------------------------------------- *)
(* C14.  Every pure load or exchange opcode Step handles (ld r,r'; ld r,n; *)
(* ld r,(hl); ld (hl),r; ld a,(bc)/(de)/(nn); ld (bc)/(de)/(nn),a;         *)
(* ld rr,nn; ex de,hl) leaves the whole flag byte exactly as at entry.     *)
(* ---------------------------------------------------------------------- *)
LoadOpcodes ==
    ((\H40..\H7f) \ {\H76})
        \cup {\H06, \H0e, \H16, \H1e, \H26, \H2e, \H36, \H3e}
        \cup {\H0a, \H1a, \H3a, \H02, \H12, \H32}
        \cup {\H01, \H11, \H21, \H31}
        \cup {\Heb}

\* The flag byte: the low byte of AF.
FlagByte(zz) == zz.af % ByteMod

\* C14 as claimed: a Step that executed a load or exchange opcode leaves the
\* flag byte as it was at entry.
C14_Claimed_LoadsKeepFlags ==
    (last.called /\ last.err = nil /\ LastOpc \in LoadOpcodes)
        => FlagByte(z) = FlagByte(last.z)


(* ---------------------------------------------------------------------- *)
(* C15.  inc b (0x04) and inc a (0x3c) add 1 mod 256 to the named 8-bit    *)
(* register only (for inc a the accumulator, the high byte of AF), leave   *)
(* the other half of an unrelated pair untouched and leave carry exactly   *)
(* as at entry.                                                            *)
(* ---------------------------------------------------------------------- *)
High(w) == w \div ByteMod
Low(w) == w % ByteMod

\* The register pairs an 8-bit increment has no business with.
SamePairs(zz, old, pairs) == \A r \in pairs : zz[r] = old[r]

\* C15 as claimed: inc b adds 1 mod 256 to B and leaves C and every other
\* pair; inc a adds 1 mod 256 to A, the high byte of AF, and leaves every
\* other pair; both leave carry as it was.
C15_Claimed_IncRegister ==
    /\ (last.called /\ LastOpc = \H04)
          => /\ High(z.bc) = (High(last.z.bc) + 1) % ByteMod
             /\ Low(z.bc) = Low(last.z.bc)
             /\ High(z.af) = High(last.z.af)
             /\ SamePairs(z, last.z, {"de", "hl", "ix", "iy", "sp"})
             /\ Flag(z, carry) = Flag(last.z, carry)
    /\ (last.called /\ LastOpc = \H3c)
          => /\ High(z.af) = (High(last.z.af) + 1) % ByteMod
             /\ SamePairs(z, last.z, {"bc", "de", "hl", "ix", "iy", "sp"})
             /\ Flag(z, carry) = Flag(last.z, carry)


(* ---------------------------------------------------------------------- *)
(* C16.  After and a (0xa7) and and n (0xe6), for every accumulator and    *)
(* operand: sign and zero reflect the result byte, add/subtract and carry  *)
(* are clear, half-carry is set, and parity/overflow is set iff the result *)
(* has even parity.                                                        *)
(* ---------------------------------------------------------------------- *)
RECURSIVE Ones(_)
Ones(byte) == IF byte = 0 THEN 0 ELSE (byte % 2) + Ones(byte \div 2)

EvenParity(byte) == Ones(byte) % 2 = 0

\* The byte the instruction computes: A and A for and a, A and n for and n.
AndResult ==
    IF LastOpc = \Ha7 THEN High(last.z.af)
    ELSE And(High(last.z.af), LastByte2)

\* The flags that depend on the result alone.
AndFlagsButParity ==
    /\ High(z.af) = AndResult
    /\ Flag(z, sign) = (AndResult >= \H80)
    /\ Flag(z, zero) = (AndResult = 0)
    /\ Flag(z, halfCarry)
    /\ ~Flag(z, addsub)
    /\ ~Flag(z, carry)

\* C16 as claimed: after and a and and n the accumulator holds the result,
\* S, Z, H, N and C are as the result dictates and P/V is set iff the result
\* has an even number of one bits.
C16_Claimed_AndFlags ==
    (last.called /\ LastOpc \in {\Ha7, \He6})
        => /\ AndFlagsButParity
           /\ Flag(z, parity) = EvenParity(AndResult)


(* ---------------------------------------------------------------------- *)
(* C17.  After neg (0xed 0x44), for every original accumulator a:          *)
(* A = (0 - a) mod 256, sign and zero reflect the result, P/V is set iff a *)
(* was 0x80, N is set, carry is set iff a was nonzero, and PC and the      *)
(* cycle counter advance by the length and the cycle count of the 0xed     *)
(* page's descriptor.                                                      *)
(* ---------------------------------------------------------------------- *)
Negated == last.called /\ LastOpc = \Hed /\ LastByte2 = \H44

\* C17: neg leaves A = (0 - a) mod 256, S and Z of that result, P/V iff
\* a = 0x80, N set, C iff a # 0, and advances PC and the cycle counter by
\* what the 0xed page's descriptor of 0x44 says.
C17_Neg ==
    Negated
        => LET a == High(last.z.af)
               result == (ByteMod - a) % ByteMod
           IN  /\ last.err = nil
               /\ High(z.af) = result
               /\ Flag(z, sign) = (result >= \H80)
               /\ Flag(z, zero) = (result = 0)
               /\ Flag(z, parity) = (a = \H80)
               /\ Flag(z, addsub)
               /\ Flag(z, carry) = (a # 0)
               /\ z.pc = Add16(last.z.pc, opcodesED[\H44].noBytes)
               /\ CyclesAdded = opcodesED[\H44].noCycles

\* neg of 0x80 with every flag clear at entry: A stays 0x80, S, P/V, N and C
\* are set
C17_Witness ==
    /\ Negated /\ last.z.af = \H8000 /\ last.z.pc = \H0100
    /\ z.af = \H8087 /\ z.pc = \H0102 /\ z.totalCycles = 8


(* ---------------------------------------------------------------------- *)
(* C18.  jr z,d (0x28) stepped with the zero flag clear: PC advances by 2  *)
(* and the cycle counter increases by exactly the single not-taken count   *)
(* (7), not by more than one cost.                                         *)
(* ---------------------------------------------------------------------- *)
\* the literal the not-taken path of jr z,d adds to the cycle counter
NotTakenCycles == 7

\* C18 as claimed: jr z,d with zero clear moves PC by 2 and adds 7 cycles.
C18_Claimed_NotTakenCost ==
    (last.called /\ LastOpc = \H28 /\ ~EntryFlag(zero))
        => /\ z.pc = Add16(last.z.pc, 2)
           /\ CyclesAdded = NotTakenCycles


(* ---------------------------------------------------------------------- *)
(* C19.  Every push (push rr and the push of call's return address) with   *)
(* SP = s writes the high byte to (s-1) mod 2^16 and the low byte to       *)
(* (s-2) mod 2^16, leaves SP = (s-2) mod 2^16 and writes no other memory   *)
(* byte; every pop reads the low byte at SP and the high byte at SP+1 and  *)
(* leaves SP increased by 2.                                               *)
(* ---------------------------------------------------------------------- *)
\* The last Step pushed a word: a register pair, or call's return address.
Pushing ==
    /\ last.called
    /\ PushedPair(LastOpc, LastByte2) # "none" \/ LastOpc = \Hcd

PushedWord ==
    IF LastOpc = \Hcd THEN Add16(last.z.pc, opcodes[\Hcd].noBytes)
    ELSE last.z[PushedPair(LastOpc, LastByte2)]

Popping == last.called /\ PoppedPair(LastOpc, LastByte2) # "none"

\* Every address that holds a nonzero byte before or after the last Step.
Touched == DOMAIN bus.mem \cup DOMAIN last.bus.mem

\* C19: a push with SP = s leaves the word's high byte at s-1, its low byte
\* at s-2, SP = s-2 and every other memory cell and the IO space as they
\* were; a pop loads the pair's low byte from SP and its high byte from
\* SP+1, leaves SP+2 and writes nothing.
C19_StackLayout ==
    /\ Pushing
          => LET s == last.z.sp
             IN  /\ Read(bus, Sub16(s, 1)) = High(PushedWord)
                 /\ Read(bus, Sub16(s, 2)) = Low(PushedWord)
                 /\ z.sp = Sub16(s, 2)
                 /\ \A a \in Touched \ {Sub16(s, 1), Sub16(s, 2)} :
                        Read(bus, a) = Read(last.bus, a)
                 /\ bus.io = last.bus.io
    /\ Popping
          => LET s == last.z.sp
                 r == PoppedPair(LastOpc, LastByte2)
             IN  /\ Low(z[r]) = Read(last.bus, s)
                 /\ High(z[r]) = Read(last.bus, Add16(s, 1))
                 /\ z.sp = Add16(s, 2)
                 /\ bus = last.bus

\* push bc with BC = 0x1234 and SP = 0x0001: 0x12 went to 0x0000, 0x34 to
\* 0xffff and SP wrapped to 0xffff
C19_Witness ==
    /\ Pushing /\ LastOpc = \Hc5 /\ last.z.bc = \H1234 /\ last.z.sp = \H0001
    /\ Read(bus, \H0000) = \H12 /\ Read(bus, \Hffff) = \H34
    /\ z.sp = \Hffff


(* ---------------------------------------------------------------------- *)
(* C20.  For jr d (0x18) and the taken jr z,d (0x28) at address P with     *)
(* displacement byte d, Step sets PC to (P + 2 + signed8(d)) mod 2^16 (a   *)
(* d of 0x80 or more jumps backward; d = 0xfe leaves PC at P), and the     *)
(* target address the disassembler renders for the same instruction is     *)
(* that same value.                                                        *)
(* ---------------------------------------------------------------------- *)
RelativeJump ==
    /\ last.called
    /\ LastOpc = \H18 \/ (LastOpc = \H28 /\ EntryFlag(zero))

RelativeTarget ==
    (last.z.pc + 2 + Signed8(OperandByte(1)) + Word) % Word

\* The operand in which the disassembler shows the target of the instruction
\* the last Step executed: the destination of jr d, the source of jr z,d.
RenderedTarget ==
    LET c == DisassembleComponents(last.z, last.bus, last.z.pc)
    IN  IF LastOpc = \H18 THEN c.dst ELSE c.src

\* C20: after jr d or a taken jr z,d PC is P + 2 + signed8(d) mod 2^16, which
\* is P itself for d = 0xfe, and DisassembleComponents at P renders exactly
\* that address.
C20_RelativeTarget ==
    RelativeJump
        => /\ last.err = nil
           /\ z.pc = RelativeTarget
           /\ OperandByte(1) = \Hfe => z.pc = last.z.pc
           /\ RenderedTarget = "$" \o Hex4(z.pc)

\* jr z,0x80 at 0x0100 with zero set jumped backward to 0x0082, the address
\* the disassembler shows
C20_Witness ==
    /\ RelativeJump /\ LastOpc = \H28 /\ last.z.pc = \H0100
    /\ OperandByte(1) = \H80
    /\ z.pc = \H0082 /\ RenderedTarget = "$0082"


(* ---------------------------------------------------------------------- *)
(* C21.  Over any sequence of Step, Reset, Disassemble and Trace calls the *)
(* cycle counter never decreases: every Step that completes normally or    *)
(* returns Halt leaves it at least as large as before (larger by the cycle *)
(* cost charged), and Reset and the disassembler leave it unchanged.       *)
(* ---------------------------------------------------------------------- *)
\* A transition in which Reset returned: the only one that counts as a call
\* and leaves a Reset record.
Resetting == rst'.called /\ steps' # steps

\* A transition in which Step returned, called directly or by Trace's loop.
Stepping == last'.called /\ steps' # steps

\* C21: no transition lowers the cycle counter; a Step that returns nil or
\* ErrHalt adds a cost that is not negative; Reset, Disassemble and
\* DisassembleComponents leave the counter as it was.
C21_CyclesMonotonic ==
    [][/\ z'.totalCycles >= z.totalCycles
       /\ (Stepping /\ last'.err \in {nil, ErrHalt})
             => z'.totalCycles - last'.z.totalCycles >= 0
       /\ Resetting => z'.totalCycles = z.totalCycles
       /\ Disassembled => z'.totalCycles = z.totalCycles]_vars

\* a Reset after a Step that cost cycles: PC is back at 0 and the counter
\* still holds what the Step added
C21_Witness ==
    /\ rst.called /\ steps = 2 /\ z.pc = 0
    /\ z.totalCycles >= 8


(* ---------------------------------------------------------------------- *)
(* C22.  Whenever Step returns an invalid-instruction error (unknown first *)
(* byte, or unknown second byte after 0xdd, 0xed or 0xfd), every register, *)
(* the flag byte, PC, SP, the cycle counter and memory are exactly as they *)
(* were before the call; consequently any further Step without outside     *)
(* changes returns the same error at the same PC (the invalid instruction  *)
(* is an absorbing state).                                                 *)
(* ---------------------------------------------------------------------- *)
\* The Step before the last one failed and nothing but the last Step ran
\* since: the last Step started from the state the failed one left.
FailedTwice ==
    /\ prev.called /\ prev.err # nil /\ prev.err # ErrHalt
    /\ last.called

\* C22: a Step that returns an invalid-instruction error leaves the register
\* file (cycle counter included) and the bus as they were; the Step after it
\* fails with the same error at the same PC and changes nothing either, and
\* so would the next one.
C22_InvalidAbsorbs ==
    /\ StepFailed
          => /\ z = last.z
             /\ bus = last.bus
             /\ step(z, bus) = Res(z, bus, last.err)
    /\ FailedTwice
          => /\ last.err = prev.err
             /\ last.z = prev.z /\ last.bus = prev.bus
             /\ z = prev.z /\ bus = prev.bus

\* 0xed followed by a second byte its page does not know, stepped twice at
\* 0x0100: both Steps failed alike and the machine is where it started
C22_Witness ==
    /\ FailedTwice /\ StepFailed
    /\ LastOpc = \Hed /\ LastByte2 = \H05
    /\ last.err = ErrInvalidInstruction /\ prev.err = ErrInvalidInstruction
    /\ z.pc = \H0100 /\ prev.z.pc = \H0100 /\ z.totalCycles = 0


====
